---- MODULE Spec2Model ----
(***************************************************************************)
(* The ReAct agent loop of src/src/lib/agent.ts (runAgent) as a state      *)
(* machine.  One action is one synchronous stretch of runAgent between two *)
(* awaits: JavaScript runs such a stretch to completion, so the abort      *)
(* signal can only change while the run is suspended in an await.          *)
(*                                                                         *)
(* Strings are modelled as sequences of fragments ("text"): a template     *)
(* literal is the concatenation of its pieces, the empty string is << >>.  *)
(* Wall-clock values (startedAt, durationMs) are left out; completedAt is  *)
(* kept as the flag "completed" (completedAt !== undefined).               *)
(*                                                                         *)
(* The second half of the module is the MCP client of                      *)
(* src/src/lib/mcp-client.ts (class McpClient and getMcpClient) with the   *)
(* server and the user interface as its environment; it has its own        *)
(* specification, McpSpec, in which the agent is idle.                     *)
(***************************************************************************)
EXTENDS Integers, Sequences, FiniteSets, TLC

\* ------------------------------------------------------------------ bounds
\* largest value of options.maxIterations explored
MaxCap == 2
\* most tool calls carried by one LLM response
MaxCalls == 2
\* most callTool invocations explored in one run
MaxToolCalls == 2
\* most McpClient objects created by getMcpClient
MaxClients == 2
\* most connect() calls explored, each opening one EventSource
MaxConnects == 2
\* most sendRequest calls explored
MaxRequests == 3

\* ------------------------------------------------------------------- text
\* a JavaScript string literal
Str(s) == IF s = "" THEN << >> ELSE <<s>>

\* JavaScript truthiness of a string
Truthy(t) == t # << >>

\* a || b on strings
OrElse(a, b) == IF Truthy(a) THEN a ELSE b

\* Array.prototype.join
RECURSIVE Join(_, _)
Join(texts, sep) ==
  IF texts = << >> THEN << >>
  ELSE IF Len(texts) = 1 THEN texts[1]
  ELSE texts[1] \o sep \o Join(Tail(texts), sep)

\* ----------------------------------------------------------------- inputs
\* LlmResponse.content values a provider adapter can produce
Contents == {Str(""), Str("Balance is 100")}

\* messages of the errors callTool can throw (new Error() has the message "")
ToolErrorMessages == {Str(""), Str("Failed to fetch")}

\* messages of the errors callLlm can throw
LlmErrorMessages == {Str("LLM API error (500)")}

\* tool calls a response can carry
ToolCallPool ==
  { [id |-> "call_1", name |-> "get_account_info", arguments |-> [address |-> "T..."]],
    [id |-> "call_2", name |-> "get_balance", arguments |-> [address |-> "T..."]] }

ToolCallLists == UNION { [1..n -> ToolCallPool] : n \in 0..MaxCalls }

\* LlmResponse; toolCalls undefined and toolCalls [] are both << >>
LlmResponses == [content : Contents, toolCalls : ToolCallLists]

\* replies to the summarizing call: its tool calls are never read
FinalResponses == {r \in LlmResponses : Len(r.toolCalls) <= 1 /\ \A i \in 1..Len(r.toolCalls) : r.toolCalls[i].id = "call_1"}

\* McpCallResult values callTool can resolve with; isError absent is FALSE
ToolOutputs ==
  { [content |-> <<[type |-> "text", text |-> Str("{balance:100}")]>>, isError |-> FALSE] }

\* the tool catalog passed to runAgent
Tools == {"get_account_info", "get_balance"}

\* the history passed to runAgent
Histories ==
  { << [role |-> "user", content |-> Str("hi")],
       [role |-> "assistant", content |-> Str("hello")] >> }

UserMessage == Str("What is my balance?")

VARIABLES
  pc,            \* where runAgent is suspended: idle, llmWait, toolWait, finalWait, done
  maxIterations, \* options.maxIterations
  aborted,       \* options.signal.aborted
  iteration,     \* let iteration
  steps,         \* const steps: AgentStep[]
  conversation,  \* const conversation: ChatMessage[] (the history while idle)
  stepCounter,   \* module-level let stepCounter
  emitted,       \* the steps handed to options.onStep, as they were at the call
  llmResponse,   \* let llmResponse
  tcIndex,       \* position of the for..of loop over llmResponse.toolCalls
  toolResults,   \* const toolResults
  thinkingStep,  \* index in steps of the object thinkingStep refers to
  toolCallStep,  \* index in steps of the object toolCallStep refers to
  llmLog,        \* the callLlm invocations made so far
  llmReplies,    \* how each finished callLlm invocation ended
  toolLog,       \* the callTool invocations made so far
  toolReplies,   \* how each finished callTool invocation ended
  result         \* << >> until runAgent returns, then <<the AgentRunResult>>

VARIABLES
  clientInstance, \* let clientInstance: 0 for null, else an index into clients
  clients,        \* every McpClient object constructed so far
  channels,       \* every EventSource opened so far, one per connect() call
  requests,       \* every sendRequest call so far, with the promise it returned
  serverCatalog,  \* the tool list the server answers tools/list with
  last            \* the operation or event handled last

VARIABLES
  llmProvider,    \* config.llmProvider
  providers,      \* config.providers
  now,            \* Date.now()
  wire,           \* a provider adapter at work: what it was given and what it made
  issuedIds,      \* the tool-call ids the adapters have made up so far, in order
  earlierSteps    \* the step ids of each run that has returned, run by run

agentVars == <<pc, maxIterations, aborted, iteration, steps, conversation, stepCounter,
               emitted, llmResponse, tcIndex, toolResults, thinkingStep, toolCallStep,
               llmLog, llmReplies, toolLog, toolReplies, result>>

mcpVars == <<clientInstance, clients, channels, requests, serverCatalog, last>>

llmVars == <<llmProvider, providers, now, wire, issuedIds, earlierSteps>>

vars == <<pc, maxIterations, aborted, iteration, steps, conversation, stepCounter,
          emitted, llmResponse, tcIndex, toolResults, thinkingStep, toolCallStep,
          llmLog, llmReplies, toolLog, toolReplies, result,
          clientInstance, clients, channels, requests, serverCatalog, last,
          llmProvider, providers, now, wire, issuedIds, earlierSteps>>

\* the run's mutable state as one record, so the stretches of code compose
Cur ==
  [pc |-> pc, iteration |-> iteration, steps |-> steps, conversation |-> conversation,
   stepCounter |-> stepCounter, emitted |-> emitted, llmResponse |-> llmResponse,
   tcIndex |-> tcIndex, toolResults |-> toolResults, thinkingStep |-> thinkingStep,
   toolCallStep |-> toolCallStep, llmLog |-> llmLog, toolLog |-> toolLog,
   result |-> result]

Install(n) ==
  /\ pc' = n.pc
  /\ iteration' = n.iteration
  /\ steps' = n.steps
  /\ conversation' = n.conversation
  /\ stepCounter' = n.stepCounter
  /\ emitted' = n.emitted
  /\ llmResponse' = n.llmResponse
  /\ tcIndex' = n.tcIndex
  /\ toolResults' = n.toolResults
  /\ thinkingStep' = n.thinkingStep
  /\ toolCallStep' = n.toolCallStep
  /\ llmLog' = n.llmLog
  /\ toolLog' = n.toolLog
  /\ result' = n.result

\* ---------------------------------------------------------------- helpers
\* F applied to the value of x: a handler's state is computed once, however
\* often the code that follows reads it
With(x, F(_)) == CHOOSE r \in {F(v) : v \in {x}} : TRUE

With2(x, y, F(_, _)) == CHOOSE r \in {F(v, w) : v \in {x}, w \in {y}} : TRUE

With3(x, y, z, F(_, _, _)) ==
  CHOOSE r \in {F(v, w, u) : v \in {x}, w \in {y}, u \in {z}} : TRUE

\* a counter that belongs to the run: the id is the position in the step list
MakeStepId_PerRun(s) == Len(s.steps) + 1

\* makeStepId: ++stepCounter; the id is the counter value (Date.now() left out)
MakeStepId(s) == s.stepCounter + 1

\* steps.push(step) of a step made with makeStepId()
Push(s, step) ==
  [s EXCEPT !.steps = Append(@, step), !.stepCounter = step.id]

\* onStep?.(step)
OnStep(s, step) == [s EXCEPT !.emitted = Append(@, step)]

\* steps.push(step); onStep?.(step)
PushEmit(s0, step0) ==
  With2(s0, step0, LAMBDA s, step :
    OnStep(Push(s, step), step))

\* return { answer, steps, iterations, durationMs }
Return(s0, answer0, iterations0) ==
  With3(s0, answer0, iterations0, LAMBDA s, answer, iterations :
    [s EXCEPT !.pc = "done",
              !.result = <<[answer |-> answer, steps |-> s.steps, iterations |-> iterations]>>])

\* getActiveProvider()
GetActiveProvider == providers[llmProvider]

\* an adapter that takes the key of the default provider's entry
SelectAdapter_DefaultKey ==
  [provider |-> llmProvider,
   adapter |-> GetActiveProvider.apiFormat,
   baseUrl |-> GetActiveProvider.baseUrl,
   apiKey |-> providers["deepseek"].apiKey,
   model |-> GetActiveProvider.model]

\* callLlm up to the fetch of the adapter it selects: the provider key and the
\* provider object are read once, the adapter reads its settings from the object
SelectAdapter ==
  [provider |-> llmProvider,
   adapter |-> GetActiveProvider.apiFormat,
   baseUrl |-> GetActiveProvider.baseUrl,
   apiKey |-> GetActiveProvider.apiKey,
   model |-> GetActiveProvider.model]

\* await callLlm(conversation, tools, ...)
CallLlm(s0, phase0) ==
  With2(s0, phase0, LAMBDA s, phase :
    [s EXCEPT !.pc = phase,
              !.llmLog = Append(@, [phase |-> phase, messages |-> s.conversation,
                                    tools |-> Tools, aborted |-> aborted,
                                    iteration |-> s.iteration,
                                    sentBy |-> SelectAdapter])])

\* await callTool(tc.name, tc.arguments)
CallTool(s0, tc0) ==
  With2(s0, tc0, LAMBDA s, tc :
    [s EXCEPT !.pc = "toolWait",
              !.toolLog = Append(@, [name |-> tc.name, arguments |-> tc.arguments,
                                     aborted |-> aborted, iteration |-> s.iteration])])

\* ------------------------------------------------------------------ steps
ThinkingStep(id, it) ==
  [id |-> id, type |-> "thinking",
   content |-> Str(IF it = 0 THEN "Analyzing your request..."
                             ELSE "Processing tool results..."),
   completed |-> FALSE, iteration |-> it]

ErrorStep(id, content, it) ==
  [id |-> id, type |-> "error", content |-> content, completed |-> TRUE, iteration |-> it]

AnswerStep(id, content, it) ==
  [id |-> id, type |-> "answer", content |-> content, completed |-> TRUE, iteration |-> it]

ToolCallStep(id, tc, it) ==
  [id |-> id, type |-> "tool_call", toolCall |-> tc, completed |-> FALSE, iteration |-> it]

ToolResultStep(id, tc, res, it) ==
  [id |-> id, type |-> "tool_result", toolName |-> tc.name, toolResult |-> res,
   completed |-> TRUE, iteration |-> it]

CancelledText == Str("Agent run was cancelled.")
UnexpectedEndText == Str("Agent loop ended unexpectedly.")
LlmFailedPrefix == Str("LLM call failed: ")
SorryPrefix == Str("Sorry, I encountered an error: ")
LimitText ==
  <<"Reached maximum iterations (", ToString(maxIterations),
    "). Providing best answer so far.">>
SummaryInstruction ==
  [role |-> "user",
   content |-> Str("Please summarize the information gathered so far and provide a final answer.")]
OutOfIterationsText == Str("I ran out of iterations. Here's what I found so far.")
ApologyText ==
  Str("I reached the maximum number of reasoning steps. Please try again with a simpler query.")

\* ------------------------------------------------------- the loop's control
\* the loop test off by one: while (iteration <= maxIterations)
LoopCondition_OffByOne(it) == it <= maxIterations

\* while (iteration < maxIterations)
LoopCondition(it) == it < maxIterations

\* the cancellation check left out
AbortCheck_Never == FALSE

\* if (signal?.aborted)
AbortCheck == aborted

\* the answer path returning the bare loop counter
AnswerIterations_NoPlusOne(it) == it

\* iterations: iteration + 1 of the answer path
AnswerIterations(it) == it + 1

\* the final return of the function: "Agent loop ended unexpectedly."
UnexpectedEnd(s) == Return(s, UnexpectedEndText, s.iteration)

\* the limit path without the synthetic user instruction
LimitReached_NoInstruction(s) ==
  CallLlm(PushEmit(s, ErrorStep(MakeStepId(s), LimitText, s.iteration)), "finalWait")

\* if (iteration >= maxIterations) { ...: the limit step, the synthetic user
\* instruction and the summarizing call
LimitReached(s) ==
  LET s1 == PushEmit(s, ErrorStep(MakeStepId(s), LimitText, s.iteration))
      s2 == [s1 EXCEPT !.conversation = Append(@, SummaryInstruction)]
  IN  CallLlm(s2, "finalWait")

\* the code after the while loop
AfterLoop(s) ==
  IF s.iteration >= maxIterations THEN LimitReached(s) ELSE UnexpectedEnd(s)

\* the thinking step and the LLM call of one iteration
StartIteration(s) ==
  LET s1 == PushEmit(s, ThinkingStep(MakeStepId(s), s.iteration))
      s2 == [s1 EXCEPT !.thinkingStep = Len(s1.steps)]
  IN  CallLlm(s2, "llmWait")

\* the loop condition and the cancellation check at the top of an iteration
LoopTop(s0) ==
  With(s0, LAMBDA s :
    IF LoopCondition(s.iteration)
    THEN IF AbortCheck
         THEN AfterLoop(PushEmit(s, ErrorStep(MakeStepId(s), CancelledText, s.iteration)))
         ELSE StartIteration(s)
    ELSE AfterLoop(s))

\* ------------------------------------------------------------ tool calls
\* the body of for (const tc of llmResponse.toolCalls) up to await callTool
BeginToolCall(s0) ==
  With(s0, LAMBDA s :
    LET tc == s.llmResponse.toolCalls[s.tcIndex]
        s1 == PushEmit(s, ToolCallStep(MakeStepId(s), tc, s.iteration))
        s2 == [s1 EXCEPT !.toolCallStep = Len(s1.steps)]
    IN  CallTool(s2, tc))

\* toolCallStep.completedAt = Date.now(); onStep?.(toolCallStep)
CompleteToolCallStep(s) ==
  LET s1 == [s EXCEPT !.steps[s.toolCallStep].completed = TRUE]
  IN  OnStep(s1, s1.steps[s.toolCallStep])

\* the error result built without its error flag
ErrorResult_NotFlagged(errMsg) ==
  [content |-> <<[type |-> "text", text |-> errMsg]>>, isError |-> FALSE]

\* const errorResult: McpCallResult of the catch block
ErrorResult(errMsg) ==
  [content |-> <<[type |-> "text", text |-> errMsg]>>, isError |-> TRUE]

\* the try block after await callTool resolved with res
OnToolResult(s, res) ==
  LET tc == s.llmResponse.toolCalls[s.tcIndex]
      s1 == CompleteToolCallStep(s)
      s2 == PushEmit(s1, ToolResultStep(MakeStepId(s1), tc, res, s.iteration))
  IN  [s2 EXCEPT !.toolResults =
         Append(@, [id |-> tc.id, name |-> tc.name, result |-> res, error |-> << >>])]

\* a catch block that records the failure but pushes no tool_result step
OnToolThrow_NoStep(s, errMsg) ==
  LET tc == s.llmResponse.toolCalls[s.tcIndex]
      s1 == CompleteToolCallStep(s)
  IN  [s1 EXCEPT !.toolResults =
         Append(@, [id |-> tc.id, name |-> tc.name, result |-> ErrorResult(errMsg),
                    error |-> <<errMsg>>])]

\* the catch block after await callTool threw an error with message errMsg
OnToolThrow(s, errMsg) ==
  LET tc == s.llmResponse.toolCalls[s.tcIndex]
      s1 == CompleteToolCallStep(s)
      s2 == PushEmit(s1, ToolResultStep(MakeStepId(s1), tc, ErrorResult(errMsg), s.iteration))
  IN  [s2 EXCEPT !.toolResults =
         Append(@, [id |-> tc.id, name |-> tc.name, result |-> ErrorResult(errMsg),
                    error |-> <<errMsg>>])]

\* tr.error ? ... : ...  (error is absent, or a string that may be empty)
HasError(tr) == tr.error # << >> /\ Truthy(tr.error[1])

\* tr.result.content.map((c) => c.text).join("\n")
ResultText(res) == Join([i \in 1..Len(res.content) |-> res.content[i].text], <<"\n">>)

\* llmResponse.toolCalls.find((t) => t.name === tr.name && t.id === tr.id)
FindToolCall(tcs, tr) ==
  LET hits == {i \in 1..Len(tcs) : tcs[i].name = tr.name /\ tcs[i].id = tr.id}
  IN  IF hits = {} THEN << >>
      ELSE <<tcs[CHOOSE i \in hits : \A j \in hits : i <= j]>>

\* the tool message built with the id of the first tool call of the response
ToolMessage_FirstCallId(tcs, tr) ==
  [role |-> "tool",
   content |-> IF HasError(tr) THEN Str("Error: ") \o tr.error[1]
               ELSE ResultText(tr.result),
   toolCallId |-> tcs[1].id,
   toolName |-> tr.name]

\* the tool message of one entry of toolResults
ToolMessage(tcs, tr) ==
  LET tc == FindToolCall(tcs, tr)
  IN  [role |-> "tool",
       content |-> IF HasError(tr) THEN Str("Error: ") \o tr.error[1]
                   ELSE ResultText(tr.result),
       toolCallId |-> IF tc # << >> /\ tc[1].id # "" THEN tc[1].id ELSE tr.id,
       toolName |-> tr.name]

\* the assistant message carrying the iteration's tool calls
AssistantToolMessage(resp) ==
  [role |-> "assistant", content |-> OrElse(resp.content, Str("")),
   toolCalls |-> resp.toolCalls]

\* Step 4: feed the tool results back, iteration++, and the next loop test
FeedBack(s0) ==
  With(s0, LAMBDA s :
    LET tcs == s.llmResponse.toolCalls
        msgs == [i \in 1..Len(s.toolResults) |-> ToolMessage(tcs, s.toolResults[i])]
        s1 == [s EXCEPT !.conversation = Append(@, AssistantToolMessage(s.llmResponse)) \o msgs,
                        !.iteration = @ + 1]
    IN  LoopTop(s1))

\* the end of the for..of body: the next tool call, or the end of the iteration
NextToolOrFeed(s0) ==
  With(s0, LAMBDA s :
    IF s.tcIndex < Len(s.llmResponse.toolCalls)
    THEN BeginToolCall([s EXCEPT !.tcIndex = @ + 1])
    ELSE FeedBack(s))

\* ------------------------------------------------------------- LLM replies
\* thinkingStep.completedAt = ...; thinkingStep.content = ...; onStep?.(thinkingStep)
UpdateThinking(s, resp) ==
  LET label == OrElse(resp.content,
                      IF Len(resp.toolCalls) > 0
                      THEN Str("Deciding which tools to use...")
                      ELSE Str("Done thinking."))
      s1 == [s EXCEPT !.steps[s.thinkingStep].completed = TRUE,
                      !.steps[s.thinkingStep].content = label]
  IN  OnStep(s1, s1.steps[s.thinkingStep])

\* no tool calls: the answer step and the return
Answer(s, resp) ==
  LET s1 == PushEmit(s, AnswerStep(MakeStepId(s), resp.content, s.iteration))
  IN  Return(s1, resp.content, AnswerIterations(s.iteration))

\* the code after await callLlm resolved with resp inside the loop
OnLlmResponse(s, resp) ==
  LET s1 == UpdateThinking([s EXCEPT !.llmResponse = resp], resp)
  IN  IF Len(resp.toolCalls) = 0
      THEN Answer(s1, resp)
      ELSE LET s2 == IF Truthy(resp.content)
                     THEN [s1 EXCEPT !.conversation =
                             Append(@, [role |-> "assistant", content |-> resp.content])]
                     ELSE s1
           IN  BeginToolCall([s2 EXCEPT !.toolResults = << >>, !.tcIndex = 1])

\* a catch block that returns without closing the pending thinking step
OnLlmThrow_ThinkingOpen(s, errMsg) ==
  LET s1 == PushEmit(s, ErrorStep(MakeStepId(s), LlmFailedPrefix \o errMsg, s.iteration))
  IN  Return(s1, SorryPrefix \o errMsg, s.iteration + 1)

\* the catch block around await callLlm inside the loop
OnLlmThrow(s, errMsg) ==
  LET s1 == PushEmit(s, ErrorStep(MakeStepId(s), LlmFailedPrefix \o errMsg, s.iteration))
      s2 == [s1 EXCEPT !.steps[s.thinkingStep].completed = TRUE]
      s3 == OnStep(s2, s2.steps[s.thinkingStep])
  IN  Return(s3, SorryPrefix \o errMsg, s.iteration + 1)

\* the summarizing call resolved with resp
OnFinalResponse(s, resp) ==
  Return(s, OrElse(resp.content, OutOfIterationsText), s.iteration)

\* the summarizing call without its try/catch: runAgent rejects, no result
OnFinalThrow_Rejects(s) == [s EXCEPT !.pc = "rejected"]

\* the summarizing call threw
OnFinalThrow(s) == Return(s, ApologyText, s.iteration)

\* ---------------------------------------------------------------- actions
\* the tool lists the server can have
ServerCatalogs ==
  { <<[name |-> "get_balance"]>>,
    <<[name |-> "get_balance"], [name |-> "get_account_info"]>> }

\* the providers of config.providers that stand for the three API formats
Providers == {"deepseek", "claude", "gemini"}

\* config.providers as the module is loaded
DefaultProviders ==
  [p \in Providers |->
     CASE p = "deepseek" ->
            [apiKey |-> "key of deepseek", baseUrl |-> "https://api.deepseek.com",
             model |-> "deepseek-chat", apiFormat |-> "openai"]
       [] p = "claude" ->
            [apiKey |-> "key of claude", baseUrl |-> "https://api.anthropic.com",
             model |-> "claude-sonnet-4-20250514", apiFormat |-> "claude"]
       [] OTHER ->
            [apiKey |-> "key of gemini",
             baseUrl |-> "https://generativelanguage.googleapis.com/v1beta",
             model |-> "gemini-2.0-flash", apiFormat |-> "gemini"]]

\* no adapter at work
NoWire == [stage |-> "none"]

\* config, the clock and the adapters as the page is loaded
LlmInit ==
  /\ llmProvider = "deepseek"
  /\ providers = DefaultProviders
  /\ now = 0
  /\ wire = NoWire
  /\ issuedIds = << >>
  /\ earlierSteps = << >>

\* the MCP client module right after it is loaded: no client object yet
McpInit ==
  /\ clientInstance = 0
  /\ clients = << >>
  /\ channels = << >>
  /\ requests = << >>
  /\ serverCatalog = <<[name |-> "get_balance"]>>

\* the value of last in the behaviours that do not record it
NotRecorded == [op |-> "off"]

\* the agent before runAgent is called
AgentInit ==
  /\ pc = "idle"
  /\ maxIterations \in 0..MaxCap
  /\ aborted = FALSE
  /\ iteration = 0
  /\ steps = << >>
  /\ conversation \in Histories
  /\ stepCounter = 0
  /\ emitted = << >>
  /\ llmResponse = [content |-> Str(""), toolCalls |-> << >>]
  /\ tcIndex = 0
  /\ toolResults = << >>
  /\ thinkingStep = 0
  /\ toolCallStep = 0
  /\ llmLog = << >>
  /\ llmReplies = << >>
  /\ toolLog = << >>
  /\ toolReplies = << >>
  /\ result = << >>

Init ==
  /\ AgentInit
  /\ McpInit
  /\ last = NotRecorded
  /\ LlmInit

\* runAgent(userMessage, history, tools, options) up to its first await
RunAgent ==
  /\ pc = "idle"
  /\ \E n \in {LoopTop([Cur EXCEPT !.conversation =
                          Append(@, [role |-> "user", content |-> UserMessage])])} :
       Install(n)
  /\ UNCHANGED <<maxIterations, aborted, llmReplies, toolReplies>>
  /\ UNCHANGED mcpVars
  /\ UNCHANGED llmVars

\* callLlm resolves inside the loop
LlmReturns ==
  /\ pc = "llmWait"
  /\ \E resp \in LlmResponses :
       /\ Len(toolLog) + Len(resp.toolCalls) <= MaxToolCalls
       /\ \E n \in {OnLlmResponse(Cur, resp)} : Install(n)
       /\ llmReplies' = Append(llmReplies, [threw |-> FALSE, response |-> resp])
  /\ UNCHANGED <<maxIterations, aborted, toolReplies>>
  /\ UNCHANGED mcpVars
  /\ UNCHANGED llmVars

\* callLlm rejects inside the loop
LlmThrows ==
  /\ pc = "llmWait"
  /\ \E errMsg \in LlmErrorMessages :
       /\ \E n \in {OnLlmThrow(Cur, errMsg)} : Install(n)
       /\ llmReplies' = Append(llmReplies, [threw |-> TRUE, error |-> errMsg])
  /\ UNCHANGED <<maxIterations, aborted, toolReplies>>
  /\ UNCHANGED mcpVars
  /\ UNCHANGED llmVars

\* callTool resolves
ToolReturns ==
  /\ pc = "toolWait"
  /\ \E res \in ToolOutputs :
       /\ \E n \in {NextToolOrFeed(OnToolResult(Cur, res))} : Install(n)
       /\ toolReplies' = Append(toolReplies, [threw |-> FALSE, result |-> res])
  /\ UNCHANGED <<maxIterations, aborted, llmReplies>>
  /\ UNCHANGED mcpVars
  /\ UNCHANGED llmVars

\* callTool rejects
ToolThrows ==
  /\ pc = "toolWait"
  /\ \E errMsg \in ToolErrorMessages :
       /\ \E n \in {NextToolOrFeed(OnToolThrow(Cur, errMsg))} : Install(n)
       /\ toolReplies' = Append(toolReplies, [threw |-> TRUE, error |-> errMsg])
  /\ UNCHANGED <<maxIterations, aborted, llmReplies>>
  /\ UNCHANGED mcpVars
  /\ UNCHANGED llmVars

\* the summarizing callLlm resolves
FinalReturns ==
  /\ pc = "finalWait"
  /\ \E resp \in FinalResponses :
       /\ \E n \in {OnFinalResponse(Cur, resp)} : Install(n)
       /\ llmReplies' = Append(llmReplies, [threw |-> FALSE, response |-> resp])
  /\ UNCHANGED <<maxIterations, aborted, toolReplies>>
  /\ UNCHANGED mcpVars
  /\ UNCHANGED llmVars

\* the summarizing callLlm rejects
FinalThrows ==
  /\ pc = "finalWait"
  /\ \E errMsg \in LlmErrorMessages :
       /\ \E n \in {OnFinalThrow(Cur)} : Install(n)
       /\ llmReplies' = Append(llmReplies, [threw |-> TRUE, error |-> errMsg])
  /\ UNCHANGED <<maxIterations, aborted, toolReplies>>
  /\ UNCHANGED mcpVars
  /\ UNCHANGED llmVars

\* cancelRun: abortController.abort(), before the run or while it is suspended
Cancel ==
  /\ pc # "done"
  /\ ~aborted
  /\ aborted' = TRUE
  /\ UNCHANGED <<pc, maxIterations, iteration, steps, conversation, stepCounter,
                 emitted, llmResponse, tcIndex, toolResults, thinkingStep,
                 toolCallStep, llmLog, llmReplies, toolLog, toolReplies, result>>
  /\ UNCHANGED mcpVars
  /\ UNCHANGED llmVars

\* the steps of runAgent itself and of the calls it awaits
Progress ==
  \/ RunAgent
  \/ LlmReturns
  \/ LlmThrows
  \/ ToolReturns
  \/ ToolThrows
  \/ FinalReturns
  \/ FinalThrows

Next ==
  \/ RunAgent
  \/ LlmReturns
  \/ LlmThrows
  \/ ToolReturns
  \/ ToolThrows
  \/ FinalReturns
  \/ FinalThrows
  \/ Cancel

Spec == Init /\ [][Next]_vars

\* every awaited call eventually resolves or rejects, and the code then runs on
FairSpec == Spec /\ WF_vars(Progress)

\* =================================================================== claims
\* the text t contains the text sub
Contains(t, sub) ==
  \E i \in 0..(Len(t) - Len(sub)) : SubSeq(t, i + 1, i + Len(sub)) = sub

IsPrefix(a, b) == Len(a) <= Len(b) /\ SubSeq(b, 1, Len(a)) = a

LastOf(seq) == seq[Len(seq)]

Count(seq, Test(_)) == Len(SelectSeq(seq, Test))

IsToolResultStep(st) == st.type = "tool_result"
IsThinkingStep(st) == st.type = "thinking"
IsToolMessage(m) == m.role = "tool"
IsLimitStep(st) == st.type = "error" /\ st.content = LimitText
IsCancelStep(st) == st.type = "error" /\ st.content = CancelledText
IsSummaryInstruction(m) == m = SummaryInstruction
IsFinalCall(c) == c.phase = "finalWait"
IsIterationMessage(m) == m.role = "assistant" /\ "toolCalls" \in DOMAIN m

\* the run has returned and its last step is an answer step
EndsWithAnswer == pc = "done" /\ steps # << >> /\ LastOf(steps).type = "answer"

\* C1: a run that ends with an answer step returns iterations = 1 + k, k being
\* the number of LLM calls made before the final response without tool calls
C1_AnswerIterations ==
  EndsWithAnswer => result[1].iterations = 1 + (Len(llmLog) - 1)

C1_Witness == EndsWithAnswer /\ Len(llmLog) = 2 /\ Len(toolLog) = 1

\* what a step shows of its kind and of the call it belongs to
Shape(st) ==
  CASE st.type = "tool_call" -> <<"tool_call", st.toolCall>>
    [] st.type = "tool_result" -> <<"tool_result", st.toolName>>
    [] OTHER -> <<st.type>>

\* the steps an iteration records for the response resp
ExpectedShapes(resp) ==
  <<<<"thinking">>>>
  \o [k \in 1..(2 * Len(resp.toolCalls)) |->
        IF k % 2 = 1 THEN <<"tool_call", resp.toolCalls[(k + 1) \div 2]>>
                     ELSE <<"tool_result", resp.toolCalls[k \div 2].name>>]
  \o (IF Len(resp.toolCalls) = 0 THEN <<<<"answer">>>> ELSE << >>)

ShapesOf(i) ==
  LET mine == SelectSeq(steps, LAMBDA st : st.iteration = i)
  IN  [k \in 1..Len(mine) |-> Shape(mine[k])]

\* C2: the steps of an iteration whose LLM call returned are one thinking step,
\* then for each tool call of the response, in request order, its tool_call step
\* immediately followed by its tool_result step (the steps of an iteration are
\* contiguous); one tool call then none gives
\* [thinking, tool_call, tool_result, thinking, answer]
C2_StepOrder ==
  /\ \A a, b \in 1..Len(steps) : a < b => steps[a].iteration <= steps[b].iteration
  /\ \A k \in 1..Len(llmReplies) :
       (llmLog[k].phase = "llmWait" /\ ~llmReplies[k].threw) =>
         LET i == llmLog[k].iteration
             want == ExpectedShapes(llmReplies[k].response)
         IN  /\ IsPrefix(ShapesOf(i), want)
             /\ (i < iteration \/ pc = "done") => ShapesOf(i) = want
  /\ ( /\ pc = "done"
       /\ Len(llmReplies) = 2
       /\ ~llmReplies[1].threw /\ Len(llmReplies[1].response.toolCalls) = 1
       /\ ~llmReplies[2].threw /\ Len(llmReplies[2].response.toolCalls) = 0
       /\ llmLog[2].phase = "llmWait" )
     => [k \in 1..Len(steps) |-> steps[k].type]
          = <<"thinking", "tool_call", "tool_result", "thinking", "answer">>

C2_Witness ==
  /\ iteration >= 1
  /\ Len(llmReplies) >= 1
  /\ ~llmReplies[1].threw
  /\ Len(llmReplies[1].response.toolCalls) = 2
  /\ llmReplies[1].response.toolCalls[1] # llmReplies[1].response.toolCalls[2]
  /\ toolReplies[1].threw

\* C3: a run issues at most maxIterations + 1 LLM calls
C3_LlmCallBound == Len(llmLog) <= maxIterations + 1

C3_Witness == maxIterations = 2 /\ Len(llmLog) = 3 /\ pc = "done"

LimitEmitted == \E k \in 1..Len(steps) : IsLimitStep(steps[k])

\* C4: once maxIterations iterations have ended with tool calls the limit step
\* is emitted; after it comes one synthetic user instruction and exactly one
\* further LLM call, and no tool call, thinking step or further iteration
C4_LimitPath ==
  /\ (pc # "idle" /\ iteration >= maxIterations) <=> LimitEmitted
  /\ (maxIterations = 1 /\ toolReplies # << >> /\ pc # "toolWait") => LimitEmitted
  /\ LimitEmitted =>
       /\ IsLimitStep(LastOf(steps))
       /\ Count(steps, IsLimitStep) = 1
       /\ Count(steps, IsThinkingStep) = maxIterations
       /\ pc \in {"finalWait", "done"}
       /\ Count(conversation, IsSummaryInstruction) = 1
       /\ LastOf(conversation) = SummaryInstruction
       /\ Len(llmLog) = maxIterations + 1
       /\ Count(llmLog, IsFinalCall) = 1
       /\ IsFinalCall(LastOf(llmLog))
       /\ LastOf(LastOf(llmLog).messages) = SummaryInstruction
       /\ Len(toolReplies) = Len(toolLog)
       /\ \A k \in 1..Len(toolLog) : toolLog[k].iteration < maxIterations

C4_Witness ==
  maxIterations = 1 /\ LimitEmitted /\ Len(toolLog) = 2 /\ pc = "done"

ToolResultSteps == SelectSeq(steps, IsToolResultStep)
ToolMessages == SelectSeq(conversation, IsToolMessage)

\* C5: a callTool that throws does not end the run: its tool_result step
\* carries isError true and the error text, the tool message fed back
\* contains the error text, the remaining tool calls of the response are
\* executed and the iteration is completed
C5_ToolThrowCaptured ==
  /\ pc \in {"idle", "llmWait", "toolWait", "finalWait", "done"}
  /\ pc # "toolWait" => \A k \in 1..Len(toolLog) : toolLog[k].iteration < iteration
  /\ \A k \in 1..Len(llmReplies) :
       (llmLog[k].phase = "llmWait" /\ ~llmReplies[k].threw
          /\ llmLog[k].iteration < iteration) =>
         LET mine == SelectSeq(toolLog, LAMBDA c : c.iteration = llmLog[k].iteration)
             tcs == llmReplies[k].response.toolCalls
         IN  [j \in 1..Len(mine) |-> mine[j].name] = [j \in 1..Len(tcs) |-> tcs[j].name]
  /\ \A k \in 1..Len(toolReplies) :
       toolReplies[k].threw =>
         /\ ToolResultSteps[k].toolResult.isError = TRUE
         /\ ToolResultSteps[k].toolResult.content
              = <<[type |-> "text", text |-> toolReplies[k].error]>>
         /\ ToolResultSteps[k].toolName = toolLog[k].name
         /\ toolLog[k].iteration < iteration =>
              /\ k <= Len(ToolMessages)
              /\ ToolMessages[k].toolName = toolLog[k].name
              /\ Contains(ToolMessages[k].content, toolReplies[k].error)

C5_Witness ==
  /\ Len(toolReplies) = 2
  /\ toolReplies[1].threw
  /\ Truthy(toolReplies[1].error)
  /\ toolLog[2].iteration = toolLog[1].iteration
  /\ Len(llmLog) = 2
  /\ Len(ToolMessages) = 2

\* the loop test of a new iteration is about to run: runAgent is being called,
\* or the last tool call of an iteration is in flight
AtIterationStart ==
  \/ pc = "idle"
  \/ pc = "toolWait" /\ tcIndex = Len(llmResponse.toolCalls)

\* the iterations completed so far: each one fed one assistant message
\* carrying its tool calls back into the conversation
CompletedIterations == Count(conversation, IsIterationMessage)

\* C6: when the signal is set as an iteration starts, the run emits an error
\* step, issues no LLM call and no tool call, and returns with that error step
\* last and with iterations = the number of iterations completed before
C6_CancelAtIterationStart ==
  [][ (AtIterationStart /\ aborted /\ iteration' < maxIterations) =>
        /\ pc' = "done"
        /\ IsCancelStep(LastOf(steps'))
        /\ LastOf(emitted') = LastOf(steps')
        /\ Len(steps') = Len(steps) + (IF pc = "idle" THEN 1 ELSE 2)
        /\ llmLog' = llmLog
        /\ toolLog' = toolLog
        /\ LastOf(result'[1].steps).type = "error"
        /\ result'[1].iterations = iteration'
        /\ result'[1].iterations = CompletedIterations'
        /\ result'[1].iterations = Len(llmLog) ]_vars

C6_Witness ==
  pc = "done" /\ steps # << >> /\ IsCancelStep(LastOf(steps)) /\ iteration = 1

\* C7: once the cancellation signal has been set during a run, no LLM call is
\* started (calls in flight may complete)
C7_NoLlmCallAfterCancel ==
  [][ (aborted /\ pc # "idle") => Len(llmLog') = Len(llmLog) ]_vars

\* C8: an LLM call that throws inside the loop ends the turn without retry:
\* an error step is emitted, the pending thinking step is completed and emitted
\* again, no LLM or tool call follows, and the answer carries the message
C8_LlmThrowEndsTurn ==
  \A k \in 1..Len(llmReplies) :
    (llmLog[k].phase = "llmWait" /\ llmReplies[k].threw) =>
      /\ pc = "done"
      /\ k = Len(llmLog)
      /\ Len(toolReplies) = Len(toolLog)
      /\ \A j \in 1..Len(toolLog) : toolLog[j].iteration < llmLog[k].iteration
      /\ LastOf(steps).type = "error"
      /\ LastOf(steps).content = LlmFailedPrefix \o llmReplies[k].error
      /\ steps[Len(steps) - 1].type = "thinking"
      /\ steps[Len(steps) - 1].completed
      /\ emitted[Len(emitted) - 1] = LastOf(steps)
      /\ LastOf(emitted) = steps[Len(steps) - 1]
      /\ result[1].answer = SorryPrefix \o llmReplies[k].error
      /\ Contains(result[1].answer, llmReplies[k].error)
      /\ result[1].steps = steps

C8_Witness ==
  /\ pc = "done"
  /\ Len(llmReplies) = 2
  /\ llmReplies[2].threw
  /\ llmLog[2].phase = "llmWait"
  /\ Len(toolLog) = 2

\* C9: every returned result has a non-empty answer and no step without a
\* completion time
C9_AnswerAndTraceComplete ==
  pc = "done" =>
    /\ Truthy(result[1].answer)
    /\ \A k \in 1..Len(result[1].steps) : result[1].steps[k].completed

\* C10: when every awaited call resolves or rejects, the run returns a result
C10_Terminates == <>(pc = "done" /\ result # << >>)

C10_Witness ==
  pc = "done" /\ maxIterations = 2 /\ iteration = 2 /\ LastOf(llmReplies).threw

\* ============================================================== McpClient
\* src/src/lib/mcp-client.ts.  One action is one macrotask: a call made by
\* the user interface, or one event of an EventSource together with the
\* promise continuations it wakes up (they run before the next event).
\*
\* The server keeps to the SSE transport: the endpoint event is the first
\* event of a channel and carries a session id of its own (the model uses the
\* channel's index), a response is pushed on the channel of the session the
\* request was POSTed to, once or more than once, and after an error event a
\* channel delivers nothing more.  What the server may choose freely: when it
\* answers, whether with a result or an error, notifications without an id,
\* lines that are not JSON, whether a POST succeeds, and its tool list.

\* the server URLs the user can enter; the first is config.mcpServerUrl
Urls == {"http://localhost:3100", "http://localhost:3200"}
DefaultUrl == "http://localhost:3100"

\* the callbacks that can be handed to onMessage
Handlers == {"h1", "h2"}

\* how the fetch of postMessage can end: response.ok, or a network/HTTP failure
FetchOutcomes == {"ok", "failed"}

\* the state of the module as one record, so the methods compose
M ==
  [clientInstance |-> clientInstance, clients |-> clients,
   channels |-> channels, requests |-> requests]

InstallMcp(n) ==
  /\ clientInstance' = n.clientInstance
  /\ clients' = n.clients
  /\ channels' = n.channels
  /\ requests' = n.requests

\* new McpClient(serverUrl): the field initialisers and the constructor
NewClient(url) ==
  [serverUrl |-> url, eventSource |-> 0, sessionId |-> 0, requestId |-> 0,
   pendingRequests |-> {}, messageHandlers |-> << >>, connected |-> FALSE,
   tools |-> << >>]

\* getMcpClient(serverUrl): the singleton is replaced when the URL differs
GetMcpClient(m, url) ==
  IF m.clientInstance = 0 \/ m.clients[m.clientInstance].serverUrl # url
  THEN [m EXCEPT !.clients = Append(@, NewClient(url)),
                 !.clientInstance = Len(m.clients) + 1]
  ELSE m

\* getMcpClient creates no client, or the bound leaves room for one more
CanGet(url) ==
  \/ clientInstance # 0 /\ clients[clientInstance].serverUrl = url
  \/ Len(clients) < MaxClients

\* an entry of the trace kept for each connect() call
Log(m, ch, event) ==
  IF ch = 0 THEN m ELSE [m EXCEPT !.channels[ch].trace = Append(@, event)]

\* connect(): opens an EventSource and attaches the three listeners to it
Connect(m, c) ==
  LET ch == Len(m.channels) + 1
  IN  [m EXCEPT !.channels = Append(@, [client |-> c, state |-> "connecting",
                                         promise |-> "pending", trace |-> << >>]),
                !.clients[c].eventSource = ch]

\* the requests of client c whose promise is not settled
Outstanding(m, c) ==
  {i \in DOMAIN m.requests : m.requests[i].client = c /\ m.requests[i].state = "pending"}

\* disconnect(); "cut" marks the requests that were outstanding at that moment
Disconnect_KeepsPending(m, c) ==
  LET es == m.clients[c].eventSource
  IN  [m EXCEPT !.channels = IF es # 0 THEN [@ EXCEPT ![es].state = "closed"] ELSE @,
                !.clients[c] = [@ EXCEPT !.eventSource = 0, !.sessionId = 0,
                                         !.connected = FALSE, !.tools = << >>],
                !.requests = [i \in DOMAIN @ |->
                                IF i \in Outstanding(m, c)
                                THEN [@[i] EXCEPT !.cut = TRUE] ELSE @[i]]]

\* disconnect() that also starts the request ids again
Disconnect_ResetsCounter(m, c) ==
  LET es == m.clients[c].eventSource
  IN  [m EXCEPT !.channels = IF es # 0 THEN [@ EXCEPT ![es].state = "closed"] ELSE @,
                !.clients[c] = [@ EXCEPT !.eventSource = 0, !.sessionId = 0,
                                         !.connected = FALSE, !.tools = << >>,
                                         !.pendingRequests = {}, !.requestId = 0],
                !.requests = [i \in DOMAIN @ |->
                                IF i \in Outstanding(m, c)
                                THEN [@[i] EXCEPT !.cut = TRUE] ELSE @[i]]]

Disconnect(m, c) ==
  LET es == m.clients[c].eventSource
  IN  [m EXCEPT !.channels = IF es # 0 THEN [@ EXCEPT ![es].state = "closed"] ELSE @,
                !.clients[c] = [@ EXCEPT !.eventSource = 0, !.sessionId = 0,
                                         !.connected = FALSE, !.tools = << >>,
                                         !.pendingRequests = {}],
                !.requests = [i \in DOMAIN @ |->
                                IF i \in Outstanding(m, c)
                                THEN [@[i] EXCEPT !.cut = TRUE] ELSE @[i]]]

\* postMessage(message): throws without a session id, else the fetch decides
PostMessage(sessionId, fetched) ==
  IF sessionId = 0 THEN "notConnected" ELSE fetched

\* Map.prototype.set on pendingRequests
MapSet(map, id, req) ==
  {e \in map : e.id # id} \cup {[id |-> id, req |-> req]}

\* sendRequest(method, params): the promise of postMessage is dropped, so
\* neither its throw nor a failed fetch reaches the promise returned here
SendRequest_NoIncrement(m, c, method, purpose, ch, fetched) ==
  LET id == m.clients[c].requestId + 1
      r == Len(m.requests) + 1
      post == PostMessage(m.clients[c].sessionId, fetched)
      n == [m EXCEPT !.clients[c].pendingRequests = MapSet(@, id, r),
                     !.requests = Append(@,
                        [client |-> c, id |-> id, method |-> method,
                         purpose |-> purpose, channel |-> ch,
                         session |-> m.clients[c].sessionId, post |-> post,
                         state |-> "pending", value |-> << >>, returned |-> << >>,
                         cut |-> FALSE])]
  IN  IF post = "notConnected" THEN n ELSE Log(n, ch, method)

SendRequest(m, c, method, purpose, ch, fetched) ==
  LET id == m.clients[c].requestId + 1
      r == Len(m.requests) + 1
      post == PostMessage(m.clients[c].sessionId, fetched)
      n == [m EXCEPT !.clients[c].requestId = id,
                     !.clients[c].pendingRequests = MapSet(@, id, r),
                     !.requests = Append(@,
                        [client |-> c, id |-> id, method |-> method,
                         purpose |-> purpose, channel |-> ch,
                         session |-> m.clients[c].sessionId, post |-> post,
                         state |-> "pending", value |-> << >>, returned |-> << >>,
                         cut |-> FALSE])]
  IN  IF post = "notConnected" THEN n ELSE Log(n, ch, method)

\* sendNotification(method): the POST is started and not waited for
SendNotification(m, c, method, ch) ==
  IF PostMessage(m.clients[c].sessionId, "ok") = "notConnected"
  THEN m ELSE Log(m, ch, method)

\* initialize() up to its first await
Initialize(m, c, ch, fetched) ==
  SendRequest(m, c, "initialize", "handshake", ch, fetched)

\* listTools() and callTool() up to their await
ListTools(m, c, purpose, ch, fetched) ==
  SendRequest(m, c, "tools/list", purpose, ch, fetched)

ClientCallTool(m, c, fetched) ==
  SendRequest(m, c, "tools/call", "callTool", 0, fetched)

\* resolve and reject of the promise of connect(): a settled promise stays
ResolveConnect(m, ch) ==
  IF m.channels[ch].promise = "pending"
  THEN Log([m EXCEPT !.channels[ch].promise = "resolved"], ch, "resolved")
  ELSE m

RejectConnect(m, ch) ==
  IF m.channels[ch].promise = "pending"
  THEN Log([m EXCEPT !.channels[ch].promise = "rejected"], ch, "rejected")
  ELSE m

\* result.tools || []
ToolsOf_Appends(cached, res) ==
  IF res.tools = << >> THEN cached ELSE cached \o res.tools[1]

ToolsOf(cached, res) ==
  IF res.tools = << >> THEN << >> ELSE res.tools[1]

\* the code that runs when the promise of request r resolves with res
OnResolved(m, r, res, fetched) ==
  LET q == m.requests[r]
      c == q.client
  IN  CASE q.purpose = "handshake" ->
             \* initialize(): connected, the notification, then listTools()
             LET a == Log(m, q.channel, "initialize response")
                 b == [a EXCEPT !.clients[c].connected = TRUE]
                 d == SendNotification(b, c, "notifications/initialized", q.channel)
             IN  ListTools(d, c, "discovery", q.channel, fetched)
        [] q.purpose = "discovery" ->
             \* listTools() returns, initialize() returns, then(resolve)
             LET a == Log(m, q.channel, "tools/list response")
                 b == [a EXCEPT !.clients[c].tools = ToolsOf(@, res)]
                 d == [b EXCEPT !.requests[r].returned = <<b.clients[c].tools>>]
             IN  ResolveConnect(d, q.channel)
        [] q.purpose = "listTools" ->
             LET b == [m EXCEPT !.clients[c].tools = ToolsOf(@, res)]
             IN  [b EXCEPT !.requests[r].returned = <<b.clients[c].tools>>]
        [] OTHER -> m

\* the code that runs when the promise of request r rejects
OnRejected(m, r) ==
  LET q == m.requests[r]
  IN  IF q.purpose \in {"handshake", "discovery"}
      THEN RejectConnect(m, q.channel)   \* initialize().catch(reject)
      ELSE m

\* the entry of pendingRequests under the id of the message, as a set
PendingFor(m, c, msg) ==
  IF msg.id = 0 THEN {} ELSE {e \in m.clients[c].pendingRequests : e.id = msg.id}

\* handleMessage(message), with the continuations of the promise it settles
HandleMessage_KeepsEntry(m, c, msg, fetched) ==
  IF PendingFor(m, c, msg) # {}
  THEN LET r == (CHOOSE e \in PendingFor(m, c, msg) : TRUE).req
       IN  IF msg.error # << >>
           THEN OnRejected([m EXCEPT !.requests[r].state = "rejected",
                                     !.requests[r].value = msg.error], r)
           ELSE OnResolved([m EXCEPT !.requests[r].state = "resolved",
                                     !.requests[r].value = <<msg.result>>],
                           r, msg.result, fetched)
  ELSE m

HandleMessage(m, c, msg, fetched) ==
  IF PendingFor(m, c, msg) # {}
  THEN LET r == (CHOOSE e \in PendingFor(m, c, msg) : TRUE).req
           a == [m EXCEPT !.clients[c].pendingRequests = @ \ PendingFor(m, c, msg)]
       IN  IF msg.error # << >>
           THEN OnRejected([a EXCEPT !.requests[r].state = "rejected",
                                     !.requests[r].value = msg.error], r)
           ELSE OnResolved([a EXCEPT !.requests[r].state = "resolved",
                                     !.requests[r].value = <<msg.result>>],
                           r, msg.result, fetched)
  ELSE m

\* the handlers handleMessage calls for the message, in order
Notified(m, c, msg) ==
  IF PendingFor(m, c, msg) # {} THEN << >> ELSE m.clients[c].messageHandlers

\* the "endpoint" listener: the session id, then initialize()
OnEndpointEvent(m, ch, fetched) ==
  LET c == m.channels[ch].client
      a == Log([m EXCEPT !.clients[c].sessionId = ch,
                         !.channels[ch].state = "live"], ch, "endpoint")
  IN  Initialize(a, c, ch, fetched)

\* eventSource.onerror
OnError_RejectsRequests(m, ch) ==
  LET c == m.channels[ch].client
      a == [m EXCEPT !.clients[c].connected = FALSE,
                     !.clients[c].pendingRequests = {},
                     !.channels[ch].state = "broken"]
  IN  IF m.clients[c].sessionId = 0 THEN RejectConnect(a, ch) ELSE a

OnError(m, ch) ==
  LET c == m.channels[ch].client
      a == [m EXCEPT !.clients[c].connected = FALSE,
                     !.channels[ch].state = "broken"]
  IN  IF m.clients[c].sessionId = 0 THEN RejectConnect(a, ch) ELSE a

\* the "message" listener: JSON.parse inside try/catch, then handleMessage
OnMessageEvent_NoCatch(m, ch, data, fetched) ==
  IF data.kind = "garbage" THEN OnError(m, ch)
  ELSE HandleMessage(m, m.channels[ch].client, data, fetched)

OnMessageEvent(m, ch, data, fetched) ==
  IF data.kind = "garbage" THEN m
  ELSE HandleMessage(m, m.channels[ch].client, data, fetched)

\* onMessage(handler) and the unsubscribe function it returns
OnMessage(m, c, h) ==
  [m EXCEPT !.clients[c].messageHandlers = Append(@, h)]

Unsubscribe(m, c, h) ==
  LET hs == m.clients[c].messageHandlers
      at == {i \in DOMAIN hs : hs[i] = h}
  IN  IF at = {} THEN m
      ELSE LET index == CHOOSE i \in at : \A j \in at : i <= j
           IN  [m EXCEPT !.clients[c].messageHandlers =
                           SubSeq(hs, 1, index - 1) \o SubSeq(hs, index + 1, Len(hs))]

\* what the server answers a request of the given method with
ResultFor(method) ==
  CASE method = "tools/list" -> [tools |-> <<serverCatalog>>, content |-> Str("")]
    [] method = "tools/call" -> [tools |-> << >>, content |-> Str("balance: 5")]
    [] OTHER -> [tools |-> << >>, content |-> Str("2025-03-26")]

NoResult == [tools |-> << >>, content |-> Str("")]

\* what the server can push on channel ch next
Inbound(ch) ==
  {[kind |-> "garbage", id |-> 0, error |-> << >>, result |-> NoResult],
   [kind |-> "json", id |-> 0, error |-> << >>, result |-> NoResult]}
  \cup
  UNION { {[kind |-> "json", id |-> requests[i].id, error |-> << >>,
            result |-> ResultFor(requests[i].method)],
           [kind |-> "json", id |-> requests[i].id,
            error |-> <<Str("Method not found")>>, result |-> NoResult]} :
          i \in {j \in DOMAIN requests :
                   /\ requests[j].client = channels[ch].client
                   /\ requests[j].session = ch
                   /\ requests[j].post = "ok"} }

NoMsg == [kind |-> "none", id |-> 0, error |-> << >>, result |-> NoResult]

\* the value of last after an operation, in the behaviours that record it
Did(op, c, ch, msg, to) ==
  last' = IF last = NotRecorded THEN last
          ELSE [op |-> op, client |-> c, channel |-> ch, msg |-> msg, to |-> to]

\* ---------------------------------------------------------- McpClient steps
\* App.tsx autoConnect, on mount
AutoConnect ==
  /\ clientInstance = 0
  /\ Len(channels) < MaxConnects
  /\ \E n \in {GetMcpClient(M, DefaultUrl)} :
       /\ InstallMcp(Connect(n, n.clientInstance))
       /\ Did("connect", n.clientInstance, Len(channels) + 1, NoMsg, << >>)
  /\ UNCHANGED serverCatalog
  /\ UNCHANGED agentVars
  /\ UNCHANGED llmVars

\* ConnectionSettings handleConnect for the URL typed in; connected is the
\* flag of the store, which the client does not set
ConnectTo(url, connected) ==
  /\ clientInstance # 0
  /\ Len(channels) < MaxConnects
  /\ CanGet(url)
  /\ \E n \in {GetMcpClient(M, url)} :
       /\ InstallMcp(Connect(IF connected THEN Disconnect(n, n.clientInstance)
                             ELSE n, n.clientInstance))
       /\ Did("connect", n.clientInstance, Len(channels) + 1, NoMsg, << >>)
  /\ UNCHANGED serverCatalog
  /\ UNCHANGED agentVars
  /\ UNCHANGED llmVars

\* handleConnect with any URL
HandleConnect ==
  \E url \in Urls, connected \in BOOLEAN : ConnectTo(url, connected)

\* handleConnect with the URL left as it is
HandleReconnect ==
  /\ clientInstance # 0
  /\ \E connected \in BOOLEAN :
       ConnectTo(clients[clientInstance].serverUrl, connected)

\* ConnectionSettings handleDisconnect: getMcpClient(serverUrl).disconnect(),
\* where the serverUrl of the store is the URL of the current client
HandleDisconnect ==
  /\ clientInstance # 0
  /\ \E n \in {GetMcpClient(M, clients[clientInstance].serverUrl)} :
       /\ InstallMcp(Disconnect(n, n.clientInstance))
       /\ Did("disconnect", n.clientInstance, 0, NoMsg, << >>)
  /\ UNCHANGED serverCatalog
  /\ UNCHANGED agentVars
  /\ UNCHANGED llmVars

\* ChatInterface and ToolExplorer: getMcpClient(serverUrl).callTool(name, args)
CallToolCall ==
  /\ clientInstance # 0
  /\ Len(requests) < MaxRequests
  /\ \E fetched \in FetchOutcomes :
       \E n \in {GetMcpClient(M, clients[clientInstance].serverUrl)} :
         /\ InstallMcp(ClientCallTool(n, n.clientInstance, fetched))
         /\ Did("callTool", n.clientInstance, 0, NoMsg, << >>)
  /\ UNCHANGED serverCatalog
  /\ UNCHANGED agentVars
  /\ UNCHANGED llmVars

\* listTools() on the current client
ListToolsCall ==
  /\ clientInstance # 0
  /\ Len(requests) < MaxRequests
  /\ \E fetched \in FetchOutcomes :
       /\ InstallMcp(ListTools(M, clientInstance, "listTools", 0, fetched))
       /\ Did("listTools", clientInstance, 0, NoMsg, << >>)
  /\ UNCHANGED serverCatalog
  /\ UNCHANGED agentVars
  /\ UNCHANGED llmVars

\* onMessage(handler) on the current client
Subscribe ==
  /\ clientInstance # 0
  /\ \E h \in Handlers :
       /\ \A i \in DOMAIN clients[clientInstance].messageHandlers :
            clients[clientInstance].messageHandlers[i] # h
       /\ InstallMcp(OnMessage(M, clientInstance, h))
       /\ Did("onMessage", clientInstance, 0, NoMsg, << >>)
  /\ UNCHANGED serverCatalog
  /\ UNCHANGED agentVars
  /\ UNCHANGED llmVars

\* the function returned by onMessage is called
Unsubscribed ==
  /\ clientInstance # 0
  /\ \E h \in Handlers :
       /\ \E i \in DOMAIN clients[clientInstance].messageHandlers :
            clients[clientInstance].messageHandlers[i] = h
       /\ InstallMcp(Unsubscribe(M, clientInstance, h))
       /\ Did("unsubscribe", clientInstance, 0, NoMsg, << >>)
  /\ UNCHANGED serverCatalog
  /\ UNCHANGED agentVars
  /\ UNCHANGED llmVars

\* the server pushes the endpoint event on a channel
EndpointEvent ==
  /\ Len(requests) < MaxRequests
  /\ \E ch \in DOMAIN channels, fetched \in FetchOutcomes :
       /\ channels[ch].state = "connecting"
       /\ InstallMcp(OnEndpointEvent(M, ch, fetched))
       /\ Did("endpoint", channels[ch].client, ch, NoMsg, << >>)
  /\ UNCHANGED serverCatalog
  /\ UNCHANGED agentVars
  /\ UNCHANGED llmVars

\* the server pushes a message event on a channel
MessageEvent ==
  /\ \E ch \in DOMAIN channels, fetched \in FetchOutcomes :
       /\ channels[ch].state = "live"
       /\ \E data \in Inbound(ch) :
            /\ \E n \in {OnMessageEvent(M, ch, data, fetched)} :
                 /\ Len(n.requests) <= MaxRequests
                 /\ InstallMcp(n)
            /\ Did("message", channels[ch].client, ch, data,
                   IF data.kind = "garbage" THEN << >>
                   ELSE Notified(M, channels[ch].client, data))
  /\ UNCHANGED serverCatalog
  /\ UNCHANGED agentVars
  /\ UNCHANGED llmVars

\* the EventSource reports an error
ErrorEvent ==
  /\ \E ch \in DOMAIN channels :
       /\ channels[ch].state \in {"connecting", "live", "broken"}
       /\ InstallMcp(OnError(M, ch))
       /\ Did("error", channels[ch].client, ch, NoMsg, << >>)
  /\ UNCHANGED serverCatalog
  /\ UNCHANGED agentVars
  /\ UNCHANGED llmVars

\* the server's tool list changes
CatalogChanges ==
  /\ \E cat \in ServerCatalogs :
       /\ cat # serverCatalog
       /\ serverCatalog' = cat
  /\ UNCHANGED <<clientInstance, clients, channels, requests, last>>
  /\ UNCHANGED agentVars
  /\ UNCHANGED llmVars

McpNext ==
  \/ AutoConnect
  \/ HandleConnect
  \/ HandleDisconnect
  \/ CallToolCall
  \/ ListToolsCall
  \/ EndpointEvent
  \/ MessageEvent
  \/ ErrorEvent
  \/ CatalogChanges

\* one endpoint, with subscribers, every operation recorded in last
McpTraceNext ==
  \/ AutoConnect
  \/ HandleReconnect
  \/ HandleDisconnect
  \/ CallToolCall
  \/ ListToolsCall
  \/ Subscribe
  \/ Unsubscribed
  \/ EndpointEvent
  \/ MessageEvent
  \/ ErrorEvent

\* the agent stays idle while the client is exercised
McpSpecInit == Init /\ maxIterations = 0

McpSpec == McpSpecInit /\ [][McpNext]_vars

McpTraceInit ==
  /\ AgentInit
  /\ maxIterations = 0
  /\ McpInit
  /\ last = [op |-> "none", client |-> 0, channel |-> 0, msg |-> NoMsg, to |-> << >>]
  /\ LlmInit

McpTraceSpec == McpTraceInit /\ [][McpTraceNext]_vars

\* ======================================================= McpClient claims
\* the connect() calls whose promise resolves in the step
ResolvedNow ==
  {ch \in DOMAIN channels :
     channels[ch].promise = "pending" /\ channels'[ch].promise = "resolved"}

\* what the trace of a connect() call holds once its promise has resolved
ConnectSequence ==
  <<"endpoint", "initialize", "initialize response", "notifications/initialized",
    "tools/list", "tools/list response", "resolved">>

\* the result of the tools/list request made for the connect() call ch
DiscoveryResult(reqs, ch) ==
  LET r == CHOOSE i \in DOMAIN reqs :
             reqs[i].purpose = "discovery" /\ reqs[i].channel = ch
  IN  reqs[r].value[1].tools[1]

\* C11: the promise of connect() resolves only after the endpoint event, the
\* initialize request and its response, the initialized notification and the
\* tools/list request and its response, in this order; at that moment the
\* client is connected and its cached tool list is the discovery result.
C11_ConnectSequence ==
  [][\A ch \in ResolvedNow :
       /\ channels'[ch].trace = ConnectSequence
       /\ clients'[channels[ch].client].connected
       /\ clients'[channels[ch].client].tools = DiscoveryResult(requests', ch)]_vars

\* the EventSources of client c that were opened and never closed
OpenChannels(chs, c) ==
  {ch \in DOMAIN chs : chs[ch].client = c /\ chs[ch].state # "closed"}

\* C11 for a client that has no other EventSource left open: this holds.
C11_SingleChannel ==
  [][\A ch \in ResolvedNow :
       OpenChannels(channels, channels[ch].client) = {ch} =>
       /\ channels'[ch].trace = ConnectSequence
       /\ clients'[channels[ch].client].connected
       /\ clients'[channels[ch].client].tools = DiscoveryResult(requests', ch)]_vars

\* the initialize request made for the connect() call ch, as a set
Handshake(ch) ==
  {i \in DOMAIN requests : requests[i].purpose = "handshake" /\ requests[i].channel = ch}

\* the connect() call ch has failed: its channel reported an error before the
\* endpoint event, or its initialize request was not delivered or was
\* answered with an error
ConnectFailed(ch) ==
  \/ channels[ch].state = "broken" /\ channels[ch].trace = << >>
  \/ \E i \in Handshake(ch) :
       requests[i].post = "failed" \/ requests[i].state = "rejected"

\* C12: connect() rejects when the channel errors before a session id was
\* obtained and when the handshake call fails; in neither case does its
\* promise stay pending.
C12_ConnectRejects ==
  \A ch \in DOMAIN channels : ConnectFailed(ch) => channels[ch].promise = "rejected"

\* the step is a connect() call on a client that existed before
ConnectCalled(c) ==
  /\ Len(channels') = Len(channels) + 1
  /\ c \in DOMAIN clients
  /\ channels'[Len(channels')].client = c

\* the entries of pendingRequests of client c for requests sent in a session
SessionEntries(cls, c) ==
  {e \in cls[c].pendingRequests : requests[e.req].session # 0}

\* C13: connect() on a client that is already connected tears the previous
\* session down: afterwards the client has one open push channel with
\* listeners attached, the new one, and no pending request of the earlier
\* session is left in the pending map.
C13_ReconnectTearsDown ==
  [][\A c \in DOMAIN clients :
       ConnectCalled(c) /\ clients[c].connected =>
       /\ OpenChannels(channels', c) = {Len(channels')}
       /\ SessionEntries(clients', c) = {}]_vars

\* the step handled the operation op, and last tells which
Handled(op) == last'.op = op /\ last' # last

\* the fields of client c are what disconnect() leaves
Disconnected(cl) ==
  /\ cl.eventSource = 0
  /\ cl.sessionId = 0
  /\ ~cl.connected
  /\ cl.tools = << >>
  /\ cl.pendingRequests = {}

\* C14: after disconnect() the push channel is closed, the session id is
\* absent, the client is not connected, its catalog and its pending map are
\* empty; and a request that was outstanding at that moment is never resolved
\* or rejected afterwards, whatever arrives later.
C14_DisconnectClears ==
  [][/\ Handled("disconnect") =>
          /\ Disconnected(clients'[last'.client])
          /\ \A ch \in DOMAIN channels :
               (last'.client \in DOMAIN clients /\ clients[last'.client].eventSource = ch)
               => channels'[ch].state = "closed"
     /\ \A i \in DOMAIN requests :
          requests[i].cut => requests'[i].state = "pending"]_vars

\* a response to a request that was outstanding at a disconnect() has arrived
C14_Witness ==
  /\ last.op = "message"
  /\ \E i \in DOMAIN requests :
       /\ requests[i].cut
       /\ requests[i].client = last.client
       /\ requests[i].id = last.msg.id
  /\ \E ch \in DOMAIN channels : channels[ch].state = "closed"

\* the calls of callTool and listTools made while the client had no session id
CallsWithoutSession ==
  {i \in DOMAIN requests :
     requests[i].purpose \in {"callTool", "listTools"} /\ requests[i].session = 0}

\* C15: a callTool or listTools issued while there is no live session id
\* fails: its promise is rejected and no entry for it stays in the pending map.
C15_NoSessionCallFails ==
  \A i \in CallsWithoutSession :
    /\ requests[i].state = "rejected"
    /\ \A e \in clients[requests[i].client].pendingRequests : e.req # i

\* the entries of the pending map of client c that the message matches
Matching(c, msg) ==
  {e \in clients[c].pendingRequests : msg.id # 0 /\ e.id = msg.id}

\* how the promise of a request ends when the message settles it
SettledBy(msg) ==
  IF msg.error = << >> THEN [state |-> "resolved", value |-> <<msg.result>>]
  ELSE [state |-> "rejected", value |-> msg.error]

C17_GarbageDropped ==
  [][Handled("message") /\ last'.msg.kind = "garbage" =>
       /\ clients' = clients
       /\ requests' = requests
       /\ channels' = channels
       /\ channels[last'.channel].state = "live"
       /\ last'.to = << >>]_vars

\* an unparseable message has arrived at a connected client with an
\* outstanding request and a subscriber
C17_Witness ==
  /\ last.op = "message"
  /\ last.msg.kind = "garbage"
  /\ clients[last.client].connected
  /\ clients[last.client].pendingRequests # {}
  /\ clients[last.client].messageHandlers # << >>

Listed(reqs) ==
  {i \in DOMAIN reqs : reqs[i].method = "tools/list" /\ reqs[i].state = "resolved"}

\* the names of a tool list
Names(tools) == {tools[k].name : k \in DOMAIN tools}

\* the callTool requests that are sent or settled in the step
CallToolSteps ==
  {i \in DOMAIN requests' :
     /\ requests'[i].purpose = "callTool"
     /\ i \in DOMAIN requests => requests[i].state # requests'[i].state}

\* C19: a successful listTools() replaces the cached catalog with the
\* discovery result and returns it; two listTools() calls answered from the
\* same server catalog return the same tool names; callTool never changes
\* the cached catalog.
C19_ListToolsIdempotent ==
  [][/\ \A i \in Listed(requests') \ Listed(requests) :
          /\ clients'[requests'[i].client].tools = serverCatalog
          /\ requests'[i].returned = <<serverCatalog>>
     /\ \A i, j \in Listed(requests') :
          (/\ requests'[i].client = requests'[j].client
           /\ requests'[i].value = requests'[j].value)
          => Names(requests'[i].returned[1]) = Names(requests'[j].returned[1])
     /\ \A i \in CallToolSteps :
          clients'[requests'[i].client].tools = clients[requests'[i].client].tools]_vars

\* a client has listed its tools twice, at connect() and by listTools()
C19_Witness ==
  \E i, j \in Listed(requests) :
    /\ i # j
    /\ requests[i].client = requests[j].client
    /\ requests[i].purpose = "discovery"
    /\ requests[j].purpose = "listTools"
    /\ requests[i].value = requests[j].value
    /\ clients[requests[i].client].tools # << >>

\* the clients that getMcpClient has replaced
Replaced == DOMAIN clients \ {clientInstance}

\* C20: at most one session is open at any time: once the application has
\* reconnected to another endpoint through getMcpClient and connect(), the
\* client of the previous endpoint has no open push channel, no pending
\* request and no tool catalog.
C20_OneSession ==
  \A c \in Replaced :
    /\ OpenChannels(channels, c) = {}
    /\ clients[c].pendingRequests = {}
    /\ clients[c].tools = << >>

\* the requests sent in the step
SentNow == {i \in DOMAIN requests' : i \notin DOMAIN requests}

\* C26 as stated: disconnect() clears the request-id counter together with
\* the pending map, so that the next request carries the id a fresh client
\* starts with.
C26_CounterCleared ==
  [][Handled("disconnect") =>
       /\ clients'[last'.client].requestId = 0
       /\ clients'[last'.client].pendingRequests = {}]_vars

\* C26 amended: disconnect() clears the pending map and leaves the request-id
\* counter as it is; every request, also the first one after a disconnect and
\* reconnect, carries the id that follows the last id its client used.
C26_CounterKept ==
  [][/\ Handled("disconnect") /\ last'.client \in DOMAIN clients =>
          /\ clients'[last'.client].requestId = clients[last'.client].requestId
          /\ clients'[last'.client].pendingRequests = {}
     /\ \A i \in SentNow :
          /\ requests'[i].client \in DOMAIN clients
          /\ requests'[i].id = clients[requests'[i].client].requestId + 1
          /\ clients'[requests'[i].client].requestId = requests'[i].id]_vars

\* the handshake of a connect() made after a disconnect() that found the
\* counter above zero has just been sent
C26_Witness ==
  /\ last.op = "endpoint"
  /\ \E i \in DOMAIN requests :
       /\ requests[i].purpose = "handshake"
       /\ requests[i].channel = last.channel
       /\ requests[i].id > 1
       /\ \E j \in DOMAIN requests :
            /\ j < i
            /\ requests[j].client = requests[i].client
            /\ requests[j].cut
            /\ requests[j].id = requests[i].id - 1

\* the requests whose promise is settled in the step
SettledNow ==
  {i \in DOMAIN requests : requests[i].state = "pending" /\ requests'[i].state # "pending"}

\* C27: over the lifetime of a client, across disconnect() and reconnect, no
\* two of its requests are sent with the same id; an inbound response settles
\* only the request sent with its id, in the session it arrived in, never a
\* request of a later session.
C27_IdsNeverReused ==
  /\ [](\A i, j \in DOMAIN requests :
          i # j /\ requests[i].client = requests[j].client
          => requests[i].id # requests[j].id)
  /\ [][\A i \in SettledNow :
          /\ Handled("message")
          /\ last'.client = requests[i].client
          /\ last'.msg.id = requests[i].id
          /\ last'.channel = requests[i].session]_vars

\* a response has settled a request of a client that was disconnected and
\* connected again before the request was sent
C27_Witness ==
  /\ last.op = "message"
  /\ \E i, j \in DOMAIN requests :
       /\ j < i
       /\ requests[j].client = requests[i].client
       /\ requests[j].cut
       /\ requests[i].session # requests[j].session
       /\ requests[i].session = last.channel
       /\ requests[i].id = last.msg.id
       /\ requests[i].state = "resolved"

\* C28: a client that is connected has a session id and a push channel that
\* is open.
C28_ConnectedHasSession ==
  \A c \in DOMAIN clients :
    clients[c].connected =>
      /\ clients[c].sessionId # 0
      /\ clients[c].eventSource # 0
      /\ channels[clients[c].eventSource].state \in {"connecting", "live"}

\* C28 for a client that has no other EventSource left open: this holds.
C28_SingleChannel ==
  \A c \in DOMAIN clients :
    clients[c].connected /\ OpenChannels(channels, c) \subseteq {clients[c].eventSource} =>
      /\ clients[c].sessionId # 0
      /\ clients[c].eventSource # 0
      /\ channels[clients[c].eventSource].state \in {"connecting", "live"}

\* the connect() calls whose promise rejects in the step
RejectedNow ==
  {ch \in DOMAIN channels :
     channels[ch].promise = "pending" /\ channels'[ch].promise = "rejected"}

\* C29: whenever connect() rejects, the client is not connected afterwards,
\* also when the handshake succeeded and the tool-discovery call failed.
C29_RejectLeavesDisconnected ==
  [][\A ch \in RejectedNow : ~clients'[channels[ch].client].connected]_vars

\* C29 for a client with no other EventSource left open: violated as well,
\* by the failure of the tool-discovery call.
C29_SingleChannel ==
  [][\A ch \in RejectedNow :
       OpenChannels(channels, channels[ch].client) = {ch}
       => ~clients'[channels[ch].client].connected]_vars

\* C29 for a rejection that is not caused by the tool-discovery call: holds
\* for a client with no other EventSource left open.
C29_BeforeDiscovery ==
  [][\A ch \in RejectedNow :
       /\ OpenChannels(channels, channels[ch].client) = {ch}
       /\ \A i \in SettledNow : requests[i].purpose # "discovery"
       => ~clients'[channels[ch].client].connected]_vars

\* ================================================ conversation and step ids
\* the iteration the assistant message at position j of the conversation
\* closes: the messages that carry tool calls come one per iteration
IterationOf(j) ==
  Len(SelectSeq(SubSeq(conversation, 1, j), IsIterationMessage)) - 1

\* the tool calls of the tool_call steps of iteration it, in step order
StepCallsOf(it) ==
  LET IsCall(st) == st.type = "tool_call" /\ st.iteration = it
      sel == SelectSeq(steps, IsCall)
  IN  [i \in 1..Len(sel) |-> sel[i].toolCall]

\* C22: every tool message of the conversation carries the id and the name of
\* a tool call of the same iteration; between it and the assistant message
\* that carries this tool call there are only tool messages of that
\* iteration; the tool_call step, the assistant message and the tool message
\* of one call hold the same id.
C22_ToolMessagesPaired ==
  \A k \in DOMAIN conversation :
    IsToolMessage(conversation[k]) =>
      \E j \in 1..(k - 1) :
        /\ IsIterationMessage(conversation[j])
        /\ \A x \in (j + 1)..k : IsToolMessage(conversation[x])
        /\ k - j <= Len(conversation[j].toolCalls)
        /\ conversation[k].toolCallId = conversation[j].toolCalls[k - j].id
        /\ conversation[k].toolName = conversation[j].toolCalls[k - j].name
        /\ Len(StepCallsOf(IterationOf(j))) = Len(conversation[j].toolCalls)
        /\ StepCallsOf(IterationOf(j))[k - j].id = conversation[k].toolCallId

\* two iterations with a tool call each were fed back, or one iteration with
\* two different tool calls
C22_Witness ==
  \E j, k \in DOMAIN conversation :
    /\ j < k
    /\ IsToolMessage(conversation[j])
    /\ IsToolMessage(conversation[k])
    /\ conversation[j].toolCallId # conversation[k].toolCallId

\* the adapters put the catalog in the request when it is not empty
\* (if (tools.length > 0) body.tools = ...)
OffersTools(call) == call.tools # {}

\* C24: the summarizing call on the iteration-limit path offers no tool
\* catalog.
C24_FinalCallWithoutTools ==
  \A i \in DOMAIN llmLog : IsFinalCall(llmLog[i]) => ~OffersTools(llmLog[i])

\* MaxRuns: the runAgent calls of one page session
MaxRuns == 2

\* the ids of a step list
IdsOf(sts) == [i \in DOMAIN sts |-> sts[i].id]

\* runAgent is called again after a run has returned: the new call has its
\* own step list, conversation and options; the module-level stepCounter stays
NextTurn ==
  /\ pc = "done"
  /\ Len(earlierSteps) + 1 < MaxRuns
  /\ earlierSteps' = Append(earlierSteps, IdsOf(steps))
  /\ pc' = "idle"
  /\ aborted' = FALSE
  /\ iteration' = 0
  /\ steps' = << >>
  /\ \E h \in Histories : conversation' = h
  /\ emitted' = << >>
  /\ llmResponse' = [content |-> Str(""), toolCalls |-> << >>]
  /\ tcIndex' = 0
  /\ toolResults' = << >>
  /\ thinkingStep' = 0
  /\ toolCallStep' = 0
  /\ llmLog' = << >>
  /\ llmReplies' = << >>
  /\ toolLog' = << >>
  /\ toolReplies' = << >>
  /\ result' = << >>
  /\ UNCHANGED <<maxIterations, stepCounter>>
  /\ UNCHANGED mcpVars
  /\ UNCHANGED <<llmProvider, providers, now, wire, issuedIds>>

SessionNext ==
  \/ RunAgent
  \/ LlmReturns
  \/ LlmThrows
  \/ ToolReturns
  \/ ToolThrows
  \/ FinalReturns
  \/ FinalThrows
  \/ Cancel
  \/ NextTurn

\* one run after the other in one page session
SessionSpec == Init /\ [][SessionNext]_vars

\* every step id of the runs so far, the current run last
AllStepIds ==
  LET RECURSIVE Flat(_)
      Flat(runs) == IF runs = << >> THEN << >> ELSE Head(runs) \o Flat(Tail(runs))
  IN  Flat(earlierSteps) \o IdsOf(steps)

\* the positions of emitted that hand out a step handed out before
ReEmitted ==
  {k \in DOMAIN emitted : \E j \in 1..(k - 1) : emitted[j].id = emitted[k].id}

\* C25: within a run and across the runs of a session every step has its own
\* id; the step list of a run only grows, no step is removed, replaced or
\* reordered; a step handed to onStep a second time is a thinking or
\* tool_call step, handed out with the same id after its completion was
\* set, and it is in the step list once.
C25_StepIdentity ==
  /\ [](\A i, j \in DOMAIN AllStepIds : i # j => AllStepIds[i] # AllStepIds[j])
  /\ [][~(pc = "done" /\ pc' = "idle") =>
          /\ Len(steps') >= Len(steps)
          /\ \A i \in DOMAIN steps :
               steps'[i].id = steps[i].id /\ steps'[i].type = steps[i].type]_vars
  /\ [](\A k \in ReEmitted :
          /\ emitted[k].type \in {"thinking", "tool_call"}
          /\ emitted[k].completed
          /\ \E j \in 1..(k - 1) :
               /\ emitted[j].id = emitted[k].id
               /\ emitted[j].type = emitted[k].type
               /\ ~emitted[j].completed
          /\ Cardinality({i \in DOMAIN steps : steps[i].id = emitted[k].id}) = 1)

\* the second run of a session has handed a tool_call step out twice
C25_Witness ==
  /\ Len(earlierSteps) = 1
  /\ Len(earlierSteps[1]) > 1
  /\ \E k \in ReEmitted : emitted[k].type = "tool_call"

\* ========================================================= provider choice
\* what the settings dialog can change in a provider's entry
ProviderUpdates == {[model |-> "model typed in"]}

\* { ...base, ...updates }
Merge(base, updates) ==
  [f \in DOMAIN base |-> IF f \in DOMAIN updates THEN updates[f] ELSE base[f]]

\* useLlmStore.setActiveProvider(provider): config.llmProvider = provider
SetActiveProvider ==
  /\ \E p \in Providers :
       /\ p # llmProvider
       /\ llmProvider' = p
  /\ UNCHANGED <<providers, now, wire, issuedIds, earlierSteps>>
  /\ UNCHANGED agentVars
  /\ UNCHANGED mcpVars

\* useLlmStore.updateProvider(provider, updates): the entry of config.providers
\* is replaced by a merged object
UpdateProvider ==
  /\ \E p \in Providers, updates \in ProviderUpdates :
       /\ Merge(providers[p], updates) # providers[p]
       /\ providers' = [providers EXCEPT ![p] = Merge(@, updates)]
  /\ UNCHANGED <<llmProvider, now, wire, issuedIds, earlierSteps>>
  /\ UNCHANGED agentVars
  /\ UNCHANGED mcpVars

\* a turn during which the settings dialog is used
ProviderNext ==
  \/ RunAgent
  \/ LlmReturns
  \/ ToolReturns
  \/ FinalReturns
  \/ SetActiveProvider
  \/ UpdateProvider

ProviderSpec == Init /\ [][ProviderNext]_vars

\* C30: all LLM calls of one runAgent turn are served by the same provider
\* and adapter, whatever setActiveProvider does while the turn is running;
\* within one call base URL, key and model come from one provider's
\* configuration.
C30_OneProviderPerTurn ==
  /\ \A i, j \in DOMAIN llmLog :
       /\ llmLog[i].sentBy.provider = llmLog[j].sentBy.provider
       /\ llmLog[i].sentBy.adapter = llmLog[j].sentBy.adapter
  /\ \A i \in DOMAIN llmLog :
       \E p \in Providers :
         /\ llmLog[i].sentBy.provider = p
         /\ llmLog[i].sentBy.baseUrl = DefaultProviders[p].baseUrl
         /\ llmLog[i].sentBy.apiKey = DefaultProviders[p].apiKey
         /\ llmLog[i].sentBy.model \in
              {DefaultProviders[p].model} \cup {u.model : u \in ProviderUpdates}

\* the calls made in the step
CalledNow == {i \in DOMAIN llmLog' : i \notin DOMAIN llmLog}

\* C30 amended: every call is served by the provider that is active when the
\* call starts, so a change made while a turn is running takes effect from
\* the turn's next call on; within one call the adapter, base URL, key and
\* model all come from that provider's entry as it is at that moment.
C30_OneConfigurationPerCall ==
  [][\A i \in CalledNow :
       /\ llmLog'[i].sentBy.provider = llmProvider
       /\ llmLog'[i].sentBy.adapter = providers[llmProvider].apiFormat
       /\ llmLog'[i].sentBy.baseUrl = providers[llmProvider].baseUrl
       /\ llmLog'[i].sentBy.apiKey = providers[llmProvider].apiKey
       /\ llmLog'[i].sentBy.model = providers[llmProvider].model]_vars

\* a turn has made a call through one adapter and, after the active provider
\* was changed and its entry edited, a later call through another
C30_Witness ==
  \E i, j \in DOMAIN llmLog :
    /\ i < j
    /\ llmLog[i].sentBy.adapter # llmLog[j].sentBy.adapter
    /\ llmLog[j].sentBy.model \in {u.model : u \in ProviderUpdates}
    /\ llmLog[j].sentBy.apiKey = DefaultProviders[llmLog[j].sentBy.provider].apiKey

\* ======================================================== provider adapters
\* MaxBlocks: the tool calls one assistant message or one response carries
MaxBlocks == 2

\* MaxResponses: the vendor responses parsed one after the other
MaxResponses == 2

\* MaxNow: how far Date.now() advances
MaxNow == 1

\* JSON values: strings, numbers, the literals true, false and null, and
\* objects with their members in property order
JStr(x) == [t |-> "str", s |-> x, kids |-> << >>]
JNum(x) == [t |-> "num", s |-> x, kids |-> << >>]
JLit(x) == [t |-> "lit", s |-> x, kids |-> << >>]
JObj(members) == [t |-> "obj", s |-> "", kids |-> members]

\* the arguments records a tool call can carry
ArgumentValues ==
  { JObj(<< >>),
    JObj(<<[k |-> "address", v |-> JStr("T...")]>>),
    JObj(<<[k |-> "address", v |-> JStr("T...")], [k |-> "limit", v |-> JNum("10")]>>),
    JObj(<<[k |-> "limit", v |-> JStr("10")]>>),
    JObj(<<[k |-> "only_confirmed", v |-> JLit("true")],
           [k |-> "filter", v |-> JObj(<<[k |-> "token", v |-> JLit("null")]>>)]>>) }

\* ToolCall values as the adapters see them
WireToolCalls ==
  [id : {Str("call_1")}, name : {"get_account_info", "get_balance"},
   arguments : ArgumentValues]

\* assistant ChatMessage values
AssistantMessages ==
  [role : {"assistant"}, content : Contents,
   toolCalls : UNION { [1..n -> WireToolCalls] : n \in 0..MaxBlocks }]

\* the adapters: callOpenAICompatible, the same with providerKey "ollama",
\* callClaude and callGemini
Formats == {"openai", "ollama", "claude", "gemini"}

\* one piece of JSON text
Tok(kind, text) == [kind |-> kind, text |-> text]

\* a string written without its quotes
Leaf_Unquoted(v) == Tok(IF v.t = "str" THEN "num" ELSE v.t, v.s)

\* the text of a string, number or literal
Leaf(v) == Tok(v.t, v.s)

\* JSON.stringify(value)
RECURSIVE JsonStringify(_)
JsonStringify(v) ==
  IF v.t = "obj"
  THEN LET RECURSIVE Members(_)
           Members(kids) ==
             IF kids = << >> THEN << >>
             ELSE <<Tok("str", Head(kids).k), Tok(":", "")>>
                  \o JsonStringify(Head(kids).v)
                  \o (IF Len(kids) > 1 THEN <<Tok(",", "")>> ELSE << >>)
                  \o Members(Tail(kids))
       IN  <<Tok("{", "")>> \o Members(v.kids) \o <<Tok("}", "")>>
  ELSE <<Leaf(v)>>

\* obj[key] = value on an object under construction
SetKey(members, key, value) ==
  IF \E i \in DOMAIN members : members[i].k = key
  THEN [i \in DOMAIN members |->
          IF members[i].k = key THEN [k |-> key, v |-> value] ELSE members[i]]
  ELSE Append(members, [k |-> key, v |-> value])

\* JSON.parse(text) from position i on: the value read and the position after
RECURSIVE ParseValue(_, _)
RECURSIVE ParseMembers(_, _, _)
ParseValue(text, i) ==
  IF text[i].kind = "{"
  THEN ParseMembers(text, i + 1, << >>)
  ELSE [v |-> [t |-> text[i].kind, s |-> text[i].text, kids |-> << >>], next |-> i + 1]

ParseMembers(text, i, members) ==
  IF text[i].kind = "}" THEN [v |-> JObj(members), next |-> i + 1]
  ELSE IF text[i].kind = "," THEN ParseMembers(text, i + 1, members)
  ELSE LET val == ParseValue(text, i + 2)
       IN  ParseMembers(text, val.next, SetKey(members, text[i].text, val.v))

JsonParse(text) == ParseValue(text, 1).v

\* a value of a request body or a response body: JSON.stringify(body) on one
\* side, response.json() on the other
OverTheWire(v) == JsonParse(JsonStringify(v))

\* m.toolCalls?.length
HasToolCalls(m) == Len(m.toolCalls) > 0

\* callOpenAICompatible: the entry of formattedMessages for an assistant message
FormatOpenAI(m) ==
  IF HasToolCalls(m)
  THEN [role |-> "assistant",
        content |-> IF Truthy(m.content) THEN <<m.content>> ELSE << >>,
        tool_calls |-> [i \in DOMAIN m.toolCalls |->
                          [id |-> m.toolCalls[i].id, type |-> "function",
                           function |-> [name |-> m.toolCalls[i].name,
                                         arguments |-> JsonStringify(m.toolCalls[i].arguments)]]]]
  ELSE [role |-> "assistant", content |-> <<m.content>>, tool_calls |-> << >>]

\* callClaude: the entry of formattedMessages for an assistant message
FormatClaude(m) ==
  IF HasToolCalls(m)
  THEN [role |-> "assistant",
        content |-> (IF Truthy(m.content) THEN <<[type |-> "text", text |-> m.content]>>
                     ELSE << >>)
                    \o [i \in DOMAIN m.toolCalls |->
                          [type |-> "tool_use", id |-> m.toolCalls[i].id,
                           name |-> m.toolCalls[i].name,
                           input |-> m.toolCalls[i].arguments]]]
  ELSE [role |-> "assistant", content |-> <<[type |-> "text", text |-> m.content]>>]

\* callGemini: the entry of contents for an assistant message
FormatGemini(m) ==
  IF HasToolCalls(m)
  THEN [role |-> "model",
        parts |-> (IF Truthy(m.content) THEN <<[text |-> m.content]>> ELSE << >>)
                  \o [i \in DOMAIN m.toolCalls |->
                        [functionCall |-> [name |-> m.toolCalls[i].name,
                                           args |-> <<m.toolCalls[i].arguments>>]]]]
  ELSE [role |-> "model", parts |-> <<[text |-> m.content]>>]

\* the vendor request form of an assistant message
FormatMessage(format, m) ==
  CASE format = "claude" -> FormatClaude(m)
    [] format = "gemini" -> FormatGemini(m)
    [] OTHER -> FormatOpenAI(m)

\* parseOpenAIResponse(data), data.choices[0].message being message
ParseOpenAIResponse(message) ==
  [content |-> IF message.content = << >> THEN Str("") ELSE message.content[1],
   toolCalls |-> [i \in DOMAIN message.tool_calls |->
                    [id |-> message.tool_calls[i].id,
                     name |-> message.tool_calls[i].function.name,
                     arguments |-> JsonParse(message.tool_calls[i].function.arguments)]]]

\* `ollama_tc_${Date.now()}_${i}` and `gemini_tc_${Date.now()}_${n}`
SynthesizedId(prefix, at, n) == <<prefix, ToString(at), "_", ToString(n)>>

\* parseOllamaResponse(data), data.message being message; the arguments of a
\* call are JSON text or an object
ParseOllamaResponse(message, at) ==
  [content |-> IF message.content = << >> THEN Str("") ELSE message.content[1],
   toolCalls |-> [i \in DOMAIN message.tool_calls |->
                    [id |-> SynthesizedId("ollama_tc_", at, i - 1),
                     name |-> message.tool_calls[i].function.name,
                     arguments |->
                       IF message.tool_calls[i].function.isString
                       THEN JsonParse(message.tool_calls[i].function.arguments)
                       ELSE message.tool_calls[i].function.arguments]]]

\* callClaude after response.json(): the loop over data.content
ParseClaudeResponse(content) ==
  LET IsText(b) == b.type = "text"
      IsToolUse(b) == b.type = "tool_use"
      texts == SelectSeq(content, IsText)
      uses == SelectSeq(content, IsToolUse)
  IN  [content |-> Join([i \in DOMAIN texts |-> texts[i].text], << >>),
       toolCalls |-> [i \in DOMAIN uses |->
                        [id |-> uses[i].id, name |-> uses[i].name,
                         arguments |-> uses[i].input]]]

\* part.text is there and not empty
HasText(part) == "text" \in DOMAIN part /\ Truthy(part.text)

\* part.functionCall.args || {}
ArgsOf(functionCall) ==
  IF functionCall.args = << >> THEN JObj(<< >>) ELSE functionCall.args[1]

\* callGemini after response.json(): the loop over candidate.content.parts
ParseGeminiResponse(parts, at) ==
  LET IsCall(part) == ~HasText(part) /\ "functionCall" \in DOMAIN part
      texts == SelectSeq(parts, HasText)
      calls == SelectSeq(parts, IsCall)
  IN  [content |-> Join([i \in DOMAIN texts |-> texts[i].text], << >>),
       toolCalls |-> [i \in DOMAIN calls |->
                        [id |-> SynthesizedId("gemini_tc_", at, i - 1),
                         name |-> calls[i].functionCall.name,
                         arguments |-> ArgsOf(calls[i].functionCall)]]]

\* the response of a vendor that encodes the calls of the request entry: what
\* the request carried, taken through JSON text; argsAsText and dropEmpty are
\* the vendor's habits (Ollama sends the arguments as an object, Gemini
\* leaves empty args out)
VendorResponse(format, request, argsAsText, dropEmpty) ==
  CASE format = "openai" -> request
    [] format = "ollama" ->
         [content |-> request.content,
          tool_calls |-> [i \in DOMAIN request.tool_calls |->
             [function |->
                [name |-> request.tool_calls[i].function.name,
                 isString |-> argsAsText,
                 arguments |-> IF argsAsText THEN request.tool_calls[i].function.arguments
                               ELSE JsonParse(request.tool_calls[i].function.arguments)]]]]
    [] format = "claude" ->
         [content |-> [i \in DOMAIN request.content |->
             IF request.content[i].type = "tool_use"
             THEN [request.content[i] EXCEPT !.input = OverTheWire(@)]
             ELSE request.content[i]]]
    [] OTHER ->
         [parts |-> [i \in DOMAIN request.parts |->
             IF "functionCall" \in DOMAIN request.parts[i]
             THEN [functionCall |->
                     [name |-> request.parts[i].functionCall.name,
                      args |-> IF dropEmpty /\ request.parts[i].functionCall.args[1].kids = << >>
                               THEN << >>
                               ELSE <<OverTheWire(request.parts[i].functionCall.args[1])>>]]
             ELSE request.parts[i]]]

\* the LlmResponse an adapter makes of the vendor's response at time at
ParseResponse(format, response, at) ==
  CASE format = "openai" -> ParseOpenAIResponse(response)
    [] format = "ollama" -> ParseOllamaResponse(response, at)
    [] format = "claude" -> ParseClaudeResponse(response.content)
    [] OTHER -> ParseGeminiResponse(response.parts, at)

\* an adapter that is handed an assistant message as its call-th job
WireInputs(call) ==
  { [stage |-> "input", call |-> call, format |-> f, input |-> m,
     request |-> << >>, response |-> << >>, output |-> << >>] :
    f \in Formats, m \in AssistantMessages }

\* the adapter writes the request entry for the message
Serialize ==
  /\ wire.stage = "input"
  /\ wire' = [wire EXCEPT !.stage = "request",
                          !.request = <<FormatMessage(wire.format, wire.input)>>]
  /\ UNCHANGED <<llmProvider, providers, now, issuedIds, earlierSteps>>
  /\ UNCHANGED agentVars
  /\ UNCHANGED mcpVars

\* the vendor answers with the same calls
VendorResponds ==
  /\ wire.stage = "request"
  /\ \E argsAsText, dropEmpty \in BOOLEAN :
       wire' = [wire EXCEPT !.stage = "response",
                            !.response = <<VendorResponse(wire.format, wire.request[1],
                                                          argsAsText, dropEmpty)>>]
  /\ UNCHANGED <<llmProvider, providers, now, issuedIds, earlierSteps>>
  /\ UNCHANGED agentVars
  /\ UNCHANGED mcpVars

\* the adapter parses the response; the ids it makes up are remembered
ResponseParsed ==
  /\ wire.stage = "response"
  /\ \E out \in {ParseResponse(wire.format, wire.response[1], now)} :
       /\ wire' = [wire EXCEPT !.stage = "parsed", !.output = <<out>>]
       /\ issuedIds' = IF wire.format \in {"gemini", "ollama"}
                       THEN issuedIds \o [i \in DOMAIN out.toolCalls |->
                                            [by |-> wire.format, call |-> wire.call,
                                             id |-> out.toolCalls[i].id]]
                       ELSE issuedIds
  /\ UNCHANGED <<llmProvider, providers, now, earlierSteps>>
  /\ UNCHANGED agentVars
  /\ UNCHANGED mcpVars

\* the next callLlm of the turn, or of a later turn
NextCall ==
  /\ wire.stage = "parsed"
  /\ wire.call < MaxResponses
  /\ wire' \in WireInputs(wire.call + 1)
  /\ UNCHANGED <<llmProvider, providers, now, issuedIds, earlierSteps>>
  /\ UNCHANGED agentVars
  /\ UNCHANGED mcpVars

\* a millisecond passes
Tick ==
  /\ now < MaxNow
  /\ now' = now + 1
  /\ UNCHANGED <<llmProvider, providers, wire, issuedIds, earlierSteps>>
  /\ UNCHANGED agentVars
  /\ UNCHANGED mcpVars

AdapterNext ==
  \/ Serialize
  \/ VendorResponds
  \/ ResponseParsed
  \/ NextCall
  \/ Tick

AdapterInit ==
  /\ AgentInit
  /\ maxIterations = 0
  /\ McpInit
  /\ last = NotRecorded
  /\ llmProvider = "deepseek"
  /\ providers = DefaultProviders
  /\ now = 0
  /\ wire \in WireInputs(1)
  /\ issuedIds = << >>
  /\ earlierSteps = << >>

AdapterSpec == AdapterInit /\ [][AdapterNext]_vars

\* the {name, arguments} pairs of a list of tool calls, in order
Pairs(tcs) == [i \in DOMAIN tcs |-> [name |-> tcs[i].name, arguments |-> tcs[i].arguments]]

\* C21: for each adapter and every list of tool calls, the tool calls parsed
\* from a vendor response that encodes the calls of the serialized assistant
\* message have the same {name, arguments} pairs in the same order; the ids
\* are the same too where the vendor issues them.
C21_RoundTrip ==
  wire.stage = "parsed" =>
    /\ Pairs(wire.output[1].toolCalls) = Pairs(wire.input.toolCalls)
    /\ wire.format \in {"openai", "claude"} =>
         \A i \in DOMAIN wire.input.toolCalls :
           wire.output[1].toolCalls[i].id = wire.input.toolCalls[i].id

\* the Gemini adapter has parsed a response with two calls, one with nested
\* arguments and one whose empty arguments the vendor left out
C21_Witness ==
  /\ wire.stage = "parsed"
  /\ wire.format = "gemini"
  /\ Len(wire.output[1].toolCalls) = 2
  /\ wire.input.toolCalls[1].arguments.kids # << >>
  /\ \E i \in DOMAIN wire.input.toolCalls[1].arguments.kids :
       wire.input.toolCalls[1].arguments.kids[i].v.t = "obj"
  /\ wire.response[1].parts[Len(wire.response[1].parts)].functionCall.args = << >>

\* the ids the Gemini adapter has made up
GeminiIds == SelectSeq(issuedIds, LAMBDA e : e.by = "gemini")

\* C23: the tool-call ids the Gemini adapter makes up never collide, in one
\* response, across the responses of a turn and across turns, also when two
\* responses are parsed within one clock tick.
C23_IdsNeverCollide ==
  \A i, j \in DOMAIN GeminiIds : i # j => GeminiIds[i].id # GeminiIds[j].id

\* what does hold: the ids made up for one response differ from each other
C23_SameResponse ==
  \A i, j \in DOMAIN GeminiIds :
    i # j /\ GeminiIds[i].call = GeminiIds[j].call => GeminiIds[i].id # GeminiIds[j].id
====
